---- MODULE Spec2Model ----
(***************************************************************************)
(* scripts/auto_tune_svg.py: grid search over five layout parameters.      *)
(* Each candidate is patched into render_svg.hpp, the project is rebuilt,  *)
(* a test SVG is rendered, its node centers are parsed and scored by RMSE  *)
(* against the centers of a reference SVG; the lowest score is reported.   *)
(*                                                                         *)
(* Conventions of the model                                                *)
(*  - Python None is the empty tuple <<>>.                                 *)
(*  - The floats of the grid are whole numbers and are held as integers;   *)
(*    Fmt gives the text Python's f-string produces for them ("50.0").     *)
(*  - A center is held doubled, <<2*cx, 2*cy>>, so that x + w/2.0 is exact.*)
(*  - A score math.sqrt(s / n) is held as the reduced fraction <<p, q>> of *)
(*    s / n (sqrt is strictly increasing, so order and equality of scores  *)
(*    are those of the fractions); float('inf') is Inf.                    *)
(*  - A text is a sequence of characters, in which the 22 characters of a  *)
(*    declaration head "const double <name> = " are one element.           *)
(***************************************************************************)
EXTENDS Integers, Sequences, FiniteSets, TLC

VARIABLES
    pc,            \* position of main(): "start", "iter" (top of the loop
                   \* body), "build", "render", "parse", "Done", "crashed"
                   \* (ended by an exception nothing catches); "call",
                   \* "once", "twice" around direct calls of
                   \* patch_render_file; "score" in direct calls of rmse;
                   \* "calling", "returned", "raised" around a direct call
                   \* of parse_svg_centers
    reference_svg, \* content of REFERENCE_SVG
    ref,           \* main's ref
    best,          \* main's best
    best_params,   \* main's best_params
    combination,   \* main's combination
    idx,           \* positions of the five nested for loops in their lists
    render_file,   \* content of RENDER_FILE
    patch_arg,     \* arguments of the last patch_render_file call
    warned,        \* the last patch printed 'No changes applied' (line 72)
    test_svg,      \* content of TEST_SVG
    log,           \* kind of the last line main itself printed
    report,        \* the items of the final print, None before it
    watch,         \* one score that is observed (None: no score is)
    watchAt,       \* index of the first candidate that scored watch, 0
                   \* as long as none did
    call,          \* arguments of a direct call of rmse or of
                   \* parse_svg_centers, None outside such calls
    result         \* what that call returned, None before it returns

vars == <<pc, reference_svg, ref, best, best_params, combination, idx,
          render_file, patch_arg, warned, test_svg, log, report, watch,
          watchAt, call, result>>

None == <<>>

----------------------------------------------------------------------------
(* The grid, lines 14-18 *)

node_w_list == <<50, 60, 70>>
node_h_list == <<30, 36>>
h_gap_list == <<16, 24>>
v_gap_list == <<24, 28>>
margin_list == <<8>>

Lists == <<node_w_list, node_h_list, h_gap_list, v_gap_list, margin_list>>

ParamNames == <<"node_w", "node_h", "h_gap", "v_gap", "margin">>

\* total, line 111
Total ==
    Len(node_w_list) * Len(node_h_list) * Len(h_gap_list)
        * Len(v_gap_list) * Len(margin_list)

\* (nw, nh, hg, vg, mg) of the loops at positions i
ParamsAt(i) == [k \in 1..5 |-> Lists[k][i[k]]]

\* The nested for loops, lines 112-116: the position after the body ran at
\* position i. The innermost loop steps first; a loop that is exhausted
\* restarts when the loop around it steps. None when all are exhausted.
RECURSIVE StepLoops(_, _)
StepLoopsOuterFirst(i, k) ==
    IF k = 0 THEN None
    ELSE IF i[6 - k] < Len(Lists[6 - k])
         THEN [j \in 1..5 |-> IF j = 6 - k THEN i[j] + 1
                              ELSE IF j < 6 - k THEN 1 ELSE i[j]]
         ELSE StepLoops(i, k - 1)

StepLoops(i, k) ==
    IF k = 0 THEN None
    ELSE IF i[k] < Len(Lists[k])
         THEN [j \in 1..5 |-> IF j = k THEN i[j] + 1
                              ELSE IF j > k THEN 1 ELSE i[j]]
         ELSE StepLoops(i, k - 1)

NextIdx(i) == StepLoops(i, 5)

----------------------------------------------------------------------------
(* SVG documents and parse_svg_centers, lines 22-56 *)

\* An attribute of a shape: a number, absent (get() returns None and float
\* raises TypeError) or not a number (float raises ValueError).
Num(v) == [k |-> "num", v |-> v]
Absent == [k |-> "absent", v |-> 0]
NotNum == [k |-> "bad", v |-> 0]

\* text.strip() on a sequence of characters
RECURSIVE LStrip(_)
LStrip(t) == IF t # <<>> /\ Head(t) = " " THEN LStrip(Tail(t)) ELSE t

RECURSIVE RStrip(_)
RStrip(t) ==
    IF t # <<>> /\ t[Len(t)] = " " THEN RStrip(SubSeq(t, 1, Len(t) - 1)) ELSE t

Strip(t) == RStrip(LStrip(t))

\* lines 35-38: the stripped text of the first text child that has any
RECURSIVE FirstLabel(_)
FirstLabel(texts) ==
    IF texts = <<>> THEN None
    ELSE IF Strip(Head(texts)) # <<>> THEN Strip(Head(texts))
    ELSE FirstLabel(Tail(texts))

\* lines 40-53: does reading the shape of group g raise
ShapeRaises(g) ==
    IF g.ellipse # None
    THEN g.ellipse[1].cx.k # "num" \/ g.ellipse[1].cy.k # "num"
    ELSE /\ g.rect # None
         /\ \E a \in {"x", "y", "width", "height"} : g.rect[1][a].k # "num"

\* lines 40-53: (cx, cy) of group g, doubled; None when it has no shape
ShapeCenter(g) ==
    IF g.ellipse # None
    THEN <<2 * g.ellipse[1].cx.v, 2 * g.ellipse[1].cy.v>>
    ELSE IF g.rect # None
         THEN <<2 * g.rect[1].x.v + g.rect[1].width.v,
                2 * g.rect[1].y.v + g.rect[1].height.v>>
         ELSE None

\* ET.parse raises on malformed markup; a matched shape raises on a bad
\* attribute whether or not the group has a label
ParseRaises(doc) ==
    \/ ~doc.wellformed
    \/ \E n \in 1..Len(doc.groups) : ShapeRaises(doc.groups[n])

\* lines 30-55 over the first n groups: centers[label] = (cx, cy), a later
\* group overwriting an earlier one of the same label
RECURSIVE CentersUpToKeepsFirst(_, _)
CentersUpToKeepsFirst(groups, n) ==
    IF n = 0 THEN <<>>
    ELSE LET before == CentersUpToKeepsFirst(groups, n - 1)
             g == groups[n]
             label == FirstLabel(g.texts)
             c == ShapeCenter(g)
         IN  IF label # None /\ c # None
             THEN [l \in (DOMAIN before) \cup {label} |->
                      IF l \in DOMAIN before THEN before[l] ELSE c]
             ELSE before

RECURSIVE CentersUpTo(_, _)
CentersUpTo(groups, n) ==
    IF n = 0 THEN <<>>
    ELSE LET before == CentersUpTo(groups, n - 1)
             g == groups[n]
             label == FirstLabel(g.texts)
             c == ShapeCenter(g)
         IN  IF label # None /\ c # None
             THEN [l \in (DOMAIN before) \cup {label} |->
                      IF l = label THEN c ELSE before[l]]
             ELSE before

parse_svg_centers(doc) == CentersUpTo(doc.groups, Len(doc.groups))

----------------------------------------------------------------------------
(* rmse, lines 91-102 *)

Inf == <<1, 0>>

RECURSIVE Gcd(_, _)
Gcd(a, b) == IF b = 0 THEN a ELSE Gcd(b, a % b)

\* math.sqrt(s4 / (4 n)) as the reduced fraction under the root; s4 is the
\* sum of squares of doubled differences
Sqrt(s4, n) ==
    LET g == Gcd(s4, 4 * n) IN <<s4 \div g, (4 * n) \div g>>

RECURSIVE SumSq(_, _, _)
SumSq(a, b, keys) ==
    IF keys = {} THEN 0
    ELSE LET k == CHOOSE x \in keys : TRUE
             dx == a[k][1] - b[k][1]
             dy == a[k][2] - b[k][2]
         IN  dx * dx + dy * dy + SumSq(a, b, keys \ {k})

rmseZeroWhenNothingShared(a, b) ==
    LET shared == {k \in DOMAIN a : k \in DOMAIN b}
        n == Cardinality(shared)
    IN  IF n = 0 THEN <<0, 1>> ELSE Sqrt(SumSq(a, b, shared), n)

rmse(a, b) ==
    LET shared == {k \in DOMAIN a : k \in DOMAIN b}
        n == Cardinality(shared)
    IN  IF n = 0 THEN Inf ELSE Sqrt(SumSq(a, b, shared), n)

\* score < best on floats (Inf is float('inf'))
LessFlipped(x, y) ==
    IF y = Inf THEN FALSE
    ELSE IF x = Inf THEN TRUE
    ELSE y[1] * x[2] < x[1] * y[2]

Less(x, y) ==
    IF x = Inf THEN FALSE
    ELSE IF y = Inf THEN TRUE
    ELSE x[1] * y[2] < y[1] * x[2]

\* line 126
ImprovesOrTies(score, b) == b = None \/ ~Less(b, score)

Improves(score, b) == b = None \/ Less(score, b)

----------------------------------------------------------------------------
(* patch_render_file, lines 59-74 *)

\* the element standing for "const double <name> = "
DeclText ==
    [node_w |-> "const double node_w = ", node_h |-> "const double node_h = ",
     h_gap |-> "const double h_gap = ", v_gap |-> "const double v_gap = ",
     margin |-> "const double margin = "]

Decl(name) == DeclText[name]

DigitChars == <<"0", "1", "2", "3", "4", "5", "6", "7", "8", "9">>

\* the characters the class [0-9.\.] matches
InClass(c) == c \in {DigitChars[d] : d \in 1..10} \cup {"."}

RECURSIVE Digits(_)
Digits(n) ==
    IF n < 10 THEN <<DigitChars[n + 1]>>
    ELSE Digits(n \div 10) \o <<DigitChars[(n % 10) + 1]>>

\* f"{v}" for a float v that is a whole number: "50.0", "-5.0"
Fmt(v) ==
    IF v < 0 THEN <<"-">> \o Digits(-v) \o <<".", "0">>
    ELSE Digits(v) \o <<".", "0">>

\* the end of the longest run of class characters of s that starts at i
\* (i - 1 when s[i] is not one)
RECURSIVE RunEnd(_, _)
RunEnd(s, i) ==
    IF i <= Len(s) /\ InClass(s[i]) THEN RunEnd(s, i + 1) ELSE i - 1

\* the position of the ";" that ends a match of
\* "const double <name> = [0-9.\.]+;" starting at i, 0 when none does
MatchEnd(s, name, i) ==
    IF s[i] # Decl(name) THEN 0
    ELSE LET e == RunEnd(s, i + 1)
         IN  IF e >= i + 1 /\ e + 1 <= Len(s) /\ s[e + 1] = ";"
             THEN e + 1 ELSE 0

\* what re.sub puts in place of a match
ReplacementNoSemicolon(name, v) == <<Decl(name)>> \o Fmt(v)

Replacement(name, v) == <<Decl(name)>> \o Fmt(v) \o <<";">>

\* re.sub(pattern of name, replacement, s) from position i on: every match,
\* leftmost first and not overlapping, is replaced
RECURSIVE SubFrom(_, _, _, _)
SubFrom(s, name, v, i) ==
    IF i > Len(s) THEN <<>>
    ELSE IF MatchEnd(s, name, i) = 0
         THEN <<s[i]>> \o SubFrom(s, name, v, i + 1)
         ELSE Replacement(name, v)
                  \o SubFrom(s, name, v, MatchEnd(s, name, i) + 1)

ReSub(s, name, v) == SubFrom(s, name, v, 1)

\* lines 61-70: s_new after the first k substitutions, applied in turn (t
\* is the text after k - 1 of them)
RECURSIVE SubAll(_, _, _)
SubAll(s, p, k) ==
    IF k = 0 THEN s
    ELSE CHOOSE r \in {ReSub(t, ParamNames[k], p[k]) :
                           t \in {SubAll(s, p, k - 1)}} : TRUE

\* line 60, read_text: text mode turns every line terminator into "\n"
\* ("\r\n" is one element of a text here)
ReadText(s) ==
    [i \in 1..Len(s) |-> IF s[i] \in {"\r\n", "\r"} THEN "\n" ELSE s[i]]

\* os.linesep where the search runs (POSIX)
linesep == "\n"

\* line 74, write_text: text mode writes "\n" as os.linesep
WriteText(s) ==
    [i \in 1..Len(s) |-> IF s[i] = "\n" THEN linesep ELSE s[i]]

patchWithoutMargin(s, p) ==
    CHOOSE r \in {IF s_new = ReadText(s) THEN s ELSE WriteText(s_new) :
                      s_new \in {SubAll(ReadText(s), p, 4)}} : TRUE

\* lines 60-74: the content of the file after the call on the content s. The
\* file is written only when s_new differs from the text that was read.
patch_render_file(s, p) ==
    CHOOSE r \in {IF s_new = ReadText(s) THEN s ELSE WriteText(s_new) :
                      s_new \in {SubAll(ReadText(s), p, 5)}} : TRUE

----------------------------------------------------------------------------
(* The files main() meets *)

MaxShift == 1

Doc(groups) == [wellformed |-> TRUE, groups |-> groups]

Malformed == [wellformed |-> FALSE, groups |-> <<>>]

EllipseGroup(label, cx, cy) ==
    [texts |-> <<label>>, ellipse |-> <<[cx |-> cx, cy |-> cy]>>, rect |-> None]

RectGroup(label, x, y, w, h) ==
    [texts |-> <<label>>, ellipse |-> None,
     rect |-> <<[x |-> x, y |-> y, width |-> w, height |-> h]>>]

\* reference.svg: A at (0, 0) and B at (10, 0); one without any node; one
\* that is not XML
RefDoc ==
    Doc(<<EllipseGroup(<<"A">>, Num(0), Num(0)),
          EllipseGroup(<<"B">>, Num(10), Num(0))>>)

EmptyDoc == Doc(<<>>)

RefDocs == {RefDoc, EmptyDoc, Malformed}

\* what the rebuilt executable may write to test.svg: A moved right by d,
\* B as a rectangle around (10, 0); a node the reference does not have; an
\* ellipse without cy; something that is not XML
Shifted(d) ==
    Doc(<<EllipseGroup(<<"A">>, Num(d), Num(0)),
          RectGroup(<<" ", "B">>, Num(8), Num(-3), Num(4), Num(6))>>)

Disjoint == Doc(<<EllipseGroup(<<"C">>, Num(0), Num(0))>>)

BadAttr == Doc(<<EllipseGroup(<<"A">>, Num(0), Absent)>>)

Artifacts ==
    {Shifted(d) : d \in 0..MaxShift} \cup {Disjoint, BadAttr, Malformed}

\* render_svg.hpp with the five declarations, and without that of margin
RECURSIVE DeclLines(_)
DeclLines(k) ==
    IF k = 0 THEN <<>>
    ELSE DeclLines(k - 1) \o <<Decl(ParamNames[k]), "1", ";", "\n">>

FullConfig == DeclLines(5)

NoMarginConfig == DeclLines(4)

InitConfigs == {FullConfig, NoMarginConfig}

NodeWConfig == DeclLines(1)

----------------------------------------------------------------------------
(* main, lines 105-132 *)

Init ==
    /\ pc = "start"
    /\ reference_svg \in RefDocs
    /\ ref = None
    /\ best = None
    /\ best_params = None
    /\ combination = 0
    /\ idx = None
    /\ render_file \in InitConfigs
    /\ patch_arg = None
    /\ warned = FALSE
    /\ test_svg = Shifted(0)
    /\ log = ""
    /\ report = None
    /\ watch = None
    /\ watchAt = 0
    /\ call = None
    /\ result = None

\* lines 106-111; an exception of parse_svg_centers ends the process
LoadReference ==
    /\ pc = "start"
    /\ IF ParseRaises(reference_svg)
       THEN /\ pc' = "crashed"
            /\ log' = "Traceback"
            /\ UNCHANGED <<ref, idx>>
       ELSE /\ ref' = parse_svg_centers(reference_svg)
            /\ log' = "Reference nodes"
            /\ idx' = <<1, 1, 1, 1, 1>>
            /\ pc' = "iter"
    /\ UNCHANGED <<reference_svg, best, best_params, combination,
                   render_file, patch_arg, warned, test_svg, report, watch,
                   watchAt,
                   call, result>>

\* lines 117-119
Patch ==
    /\ pc = "iter"
    /\ combination' = combination + 1
    /\ log' = "Trying"
    /\ patch_arg' = ParamsAt(idx)
    /\ render_file' = patch_render_file(render_file, ParamsAt(idx))
    /\ warned' = (render_file' = render_file)
    /\ pc' = "build"
    /\ UNCHANGED <<reference_svg, ref, best, best_params, idx, test_svg,
                   report, watch, watchAt,
                   call, result>>

\* the end of the loop body: the next candidate, or line 132 after the
\* last; neither writes RENDER_FILE
EndOfBodyWritesBack(b, bp, line) ==
    IF NextIdx(idx) = None
    THEN /\ pc' = "Done"
         /\ idx' = idx
         /\ log' = "Best params"
         /\ report' = <<"Best params:", bp, "rmse=", b>>
         /\ render_file' = IF bp = None THEN render_file
                           ELSE patch_render_file(render_file, bp)
    ELSE /\ pc' = "iter"
         /\ idx' = NextIdx(idx)
         /\ log' = line
         /\ report' = report
         /\ render_file' = render_file

EndOfBody(b, bp, line) ==
    /\ render_file' = render_file
    /\ IF NextIdx(idx) = None
       THEN /\ pc' = "Done"
            /\ idx' = idx
            /\ log' = "Best params"
            /\ report' = <<"Best params:", bp, "rmse=", b>>
       ELSE /\ pc' = "iter"
            /\ idx' = NextIdx(idx)
            /\ log' = line
            /\ report' = report

\* lines 130-131
HandlerLeavesLoops ==
    /\ pc' = "Done"
    /\ idx' = idx
    /\ log' = "Best params"
    /\ report' = <<"Best params:", best_params, "rmse=", best>>
    /\ UNCHANGED <<best, best_params, watchAt, render_file>>

Handler ==
    /\ EndOfBody(best, best_params, "Build or generation failed")
    /\ UNCHANGED <<best, best_params, watchAt>>

\* line 121, build_project returns
BuildOkSkipsRender ==
    /\ pc = "build"
    /\ pc' = "parse"
    /\ UNCHANGED <<reference_svg, ref, best, best_params, combination, idx,
                   render_file, patch_arg, warned, test_svg, log, report,
                   watch, watchAt, call, result>>

BuildOk ==
    /\ pc = "build"
    /\ pc' = "render"
    /\ UNCHANGED <<reference_svg, ref, best, best_params, combination, idx,
                   render_file, patch_arg, warned, test_svg, log, report,
                   watch, watchAt,
                   call, result>>

\* line 121, build_project raises CalledProcessError
BuildFail ==
    /\ pc = "build"
    /\ Handler
    /\ UNCHANGED <<reference_svg, ref, combination, patch_arg, warned,
                   test_svg, watch, call, result>>

\* line 122, generate_svg returns: test.svg holds what the executable wrote
RenderOk ==
    /\ pc = "render"
    /\ test_svg' \in Artifacts
    /\ pc' = "parse"
    /\ UNCHANGED <<reference_svg, ref, best, best_params, combination, idx,
                   render_file, patch_arg, warned, log, report, watch,
                   watchAt,
                   call, result>>

\* line 122, generate_svg raises CalledProcessError: test.svg was opened
\* for writing and holds what the executable wrote before it exited
RenderFail ==
    /\ pc = "render"
    /\ test_svg' \in Artifacts
    /\ Handler
    /\ UNCHANGED <<reference_svg, ref, combination, patch_arg, warned,
                   watch, call, result>>

\* lines 123-129; an exception of parse_svg_centers is not a
\* CalledProcessError and ends the process
ScoreKeepsFirstParams ==
    /\ pc = "parse"
    /\ IF ParseRaises(test_svg)
       THEN /\ pc' = "crashed"
            /\ log' = "Traceback"
            /\ UNCHANGED <<best, best_params, idx, report, watchAt,
                           render_file>>
       ELSE LET test == parse_svg_centers(test_svg)
                score == rmse(ref, test)
                better == Improves(score, best)
                b == IF better THEN score ELSE best
                bp == IF better /\ best_params = None THEN ParamsAt(idx)
                      ELSE best_params
            IN  /\ best' = b
                /\ best_params' = bp
                /\ watchAt' =
                       IF watchAt = 0 /\ score = watch THEN combination
                       ELSE watchAt
                /\ EndOfBody(b, bp, IF better THEN "New best!"
                                    ELSE "Score RMSE:")
    /\ UNCHANGED <<reference_svg, ref, combination, patch_arg, warned,
                   test_svg, watch, call, result>>

Score ==
    /\ pc = "parse"
    /\ IF ParseRaises(test_svg)
       THEN /\ pc' = "crashed"
            /\ log' = "Traceback"
            /\ UNCHANGED <<best, best_params, idx, report, watchAt,
                           render_file>>
       ELSE LET test == parse_svg_centers(test_svg)
                score == rmse(ref, test)
                better == Improves(score, best)
                b == IF better THEN score ELSE best
                bp == IF better THEN ParamsAt(idx) ELSE best_params
            IN  /\ best' = b
                /\ best_params' = bp
                /\ watchAt' =
                       IF watchAt = 0 /\ score = watch THEN combination
                       ELSE watchAt
                /\ EndOfBody(b, bp, IF better THEN "New best!"
                                    ELSE "Score RMSE:")
    /\ UNCHANGED <<reference_svg, ref, combination, patch_arg, warned,
                   test_svg, watch, call, result>>

Next ==
    \/ LoadReference
    \/ Patch
    \/ BuildOk
    \/ BuildFail
    \/ RenderOk
    \/ RenderFail
    \/ Score

Spec == Init /\ [][Next]_vars

\* build_project and generate_svg block until the external process exits;
\* given that every one of them returns, main keeps taking steps
FairSpec == Spec /\ WF_vars(Next)

\* the scores a candidate can get against a reference that parses
Scores ==
    {rmse(parse_svg_centers(r), parse_svg_centers(a)) :
        r \in {d \in RefDocs : ~ParseRaises(d)},
        a \in {d \in Artifacts : ~ParseRaises(d)}}

\* main with one score observed, whichever it is
WatchInit ==
    /\ pc = "start"
    /\ reference_svg \in {RefDoc, EmptyDoc}
    /\ ref = None
    /\ best = None
    /\ best_params = None
    /\ combination = 0
    /\ idx = None
    /\ render_file = NodeWConfig
    /\ patch_arg = None
    /\ warned = FALSE
    /\ test_svg = Shifted(0)
    /\ log = ""
    /\ report = None
    /\ watch \in Scores
    /\ watchAt = 0
    /\ call = None
    /\ result = None

WatchSpec == WatchInit /\ [][Next]_vars

----------------------------------------------------------------------------
(* patch_render_file called directly, twice with the same arguments *)

MaxLen == 4

Alphabet == {Decl("node_w"), Decl("node_h"), "1", ";", "x", "\r\n"}

Texts == UNION {[1..n -> Alphabet] : n \in 0..MaxLen}

PatchValues == {-5, 7, 50}

PatchArgs == {<<a, b, 16, 24, 8>> : a \in PatchValues, b \in PatchValues}

PatchInit ==
    /\ pc = "call"
    /\ reference_svg = EmptyDoc
    /\ ref = None
    /\ best = None
    /\ best_params = None
    /\ combination = 0
    /\ idx = None
    /\ render_file \in Texts
    /\ patch_arg = None
    /\ warned = FALSE
    /\ test_svg = EmptyDoc
    /\ log = ""
    /\ report = None
    /\ watch = None
    /\ watchAt = 0
    /\ call = None
    /\ result = None

PatchCall ==
    /\ pc = "call"
    /\ \E p \in PatchArgs :
           /\ patch_arg' = p
           /\ render_file' = patch_render_file(render_file, p)
    /\ warned' = (render_file' = render_file)
    /\ pc' = "once"
    /\ UNCHANGED <<reference_svg, ref, best, best_params, combination, idx,
                   test_svg, log, report, watch, watchAt,
                   call, result>>

PatchAgain ==
    /\ pc = "once"
    /\ render_file' = patch_render_file(render_file, patch_arg)
    /\ warned' = (render_file' = render_file)
    /\ pc' = "twice"
    /\ UNCHANGED <<reference_svg, ref, best, best_params, combination, idx,
                   patch_arg, test_svg, log, report, watch, watchAt,
                   call, result>>

PatchNext == PatchCall \/ PatchAgain

PatchSpec == PatchInit /\ [][PatchNext]_vars

----------------------------------------------------------------------------
(* rmse called directly on any two maps, followed by lines 126-127 *)

MaxCoord == 1

Labels == {<<"A">>, <<"B">>}

\* doubled coordinates, as parse_svg_centers gives them in this model
Points == {<<x, y>> : x \in 0..MaxCoord, y \in 0..1}

GeometryMaps == UNION {[L -> Points] : L \in SUBSET Labels}

RmseInit ==
    /\ pc = "score"
    /\ reference_svg = EmptyDoc
    /\ ref \in GeometryMaps
    /\ best = None
    /\ best_params = None
    /\ combination = 0
    /\ idx = None
    /\ render_file = <<>>
    /\ patch_arg = None
    /\ warned = FALSE
    /\ test_svg = EmptyDoc
    /\ log = ""
    /\ report = None
    /\ watch = None
    /\ watchAt = 0
    /\ call = None
    /\ result = None

\* lines 124-127 with any map in place of the parsed test.svg
ScoreMaps ==
    /\ pc = "score"
    /\ \E t \in GeometryMaps :
           /\ call' = <<ref, t>>
           /\ result' = rmse(ref, t)
    /\ best' = IF Improves(result', best) THEN result' ELSE best
    /\ log' = IF Improves(result', best) THEN "New best!" ELSE "Score RMSE:"
    /\ UNCHANGED <<pc, reference_svg, ref, best_params, combination, idx,
                   render_file, patch_arg, warned, test_svg, report, watch,
                   watchAt>>

RmseNext == ScoreMaps

RmseSpec == RmseInit /\ [][RmseNext]_vars

----------------------------------------------------------------------------
(* parse_svg_centers called directly on any document *)

MaxGroups == 2

\* the text children a group may have: none, a blank one, "A", " B ", a
\* blank one before "A", "B" before "A"
GroupTexts ==
    {<<>>, <<<<" ">>>>, <<<<"A">>>>, <<<<" ", "B", " ">>>>,
     <<<<" ">>, <<"A">>>>, <<<<"B">>, <<"A">>>>}

AnEllipse(cx, cy) == <<[cx |-> cx, cy |-> cy]>>

ARect == <<[x |-> Num(1), y |-> Num(1), width |-> Num(3), height |-> Num(4)]>>

\* the shape children a group may have: none, an ellipse, another ellipse,
\* a rectangle, an ellipse and a rectangle, an ellipse whose cx is no number
GroupShapes ==
    {[ellipse |-> None, rect |-> None],
     [ellipse |-> AnEllipse(Num(0), Num(0)), rect |-> None],
     [ellipse |-> AnEllipse(Num(1), Num(2)), rect |-> None],
     [ellipse |-> None, rect |-> ARect],
     [ellipse |-> AnEllipse(Num(1), Num(2)), rect |-> ARect],
     [ellipse |-> AnEllipse(NotNum, Num(0)), rect |-> None]}

Groups ==
    {[texts |-> t, ellipse |-> sh.ellipse, rect |-> sh.rect] :
        t \in GroupTexts, sh \in GroupShapes}

ParseDocs ==
    {Doc(gs) : gs \in UNION {[1..n -> Groups] : n \in 0..MaxGroups}}
        \cup {Malformed}

ParseInit ==
    /\ pc = "calling"
    /\ reference_svg = EmptyDoc
    /\ ref = None
    /\ best = None
    /\ best_params = None
    /\ combination = 0
    /\ idx = None
    /\ render_file = <<>>
    /\ patch_arg = None
    /\ warned = FALSE
    /\ test_svg = EmptyDoc
    /\ log = ""
    /\ report = None
    /\ watch = None
    /\ watchAt = 0
    /\ call \in {<<d>> : d \in ParseDocs}
    /\ result = None

\* lines 22-56: the call returns the centers or raises
ParseCall ==
    /\ pc = "calling"
    /\ IF ParseRaises(call[1])
       THEN /\ pc' = "raised"
            /\ result' = result
       ELSE /\ pc' = "returned"
            /\ result' = parse_svg_centers(call[1])
    /\ UNCHANGED <<reference_svg, ref, best, best_params, combination, idx,
                   render_file, patch_arg, warned, test_svg, log, report,
                   watch, watchAt, call>>

ParseNext == ParseCall

ParseSpec == ParseInit /\ [][ParseNext]_vars

----------------------------------------------------------------------------
(* Properties *)

\* the c-th candidate of the cartesian product with node_w outermost and
\* margin innermost
GridAt(c) ==
    LET r == c - 1
        n2 == Len(node_h_list)
        n3 == Len(h_gap_list)
        n4 == Len(v_gap_list)
        n5 == Len(margin_list)
    IN  <<node_w_list[(r \div (n2 * n3 * n4 * n5)) + 1],
          node_h_list[((r \div (n3 * n4 * n5)) % n2) + 1],
          h_gap_list[((r \div (n4 * n5)) % n3) + 1],
          v_gap_list[((r \div n5) % n4) + 1],
          margin_list[(r % n5) + 1]>>

Product ==
    {<<a, b, c, d, e>> :
        a \in {node_w_list[i] : i \in 1..Len(node_w_list)},
        b \in {node_h_list[i] : i \in 1..Len(node_h_list)},
        c \in {h_gap_list[i] : i \in 1..Len(h_gap_list)},
        d \in {v_gap_list[i] : i \in 1..Len(v_gap_list)},
        e \in {margin_list[i] : i \in 1..Len(margin_list)}}

\* score x is strictly lower than score y
Lower(x, y) == x # Inf /\ (y = Inf \/ x[1] * y[2] < y[1] * x[2])

\* text s holds "const double <name> = <v>;"
Holds(s, name, v) ==
    \E i \in 1..Len(s) :
        /\ s[i] = Decl(name)
        /\ i + Len(Fmt(v)) + 1 <= Len(s)
        /\ SubSeq(s, i + 1, i + Len(Fmt(v))) = Fmt(v)
        /\ s[i + Len(Fmt(v)) + 1] = ";"

\* C1: at Done, under WatchSpec (watch is any one score): if some candidate
\* scored watch then a best exists and watch is not lower than it, so best
\* is at most the score of every scored candidate; if best is watch then
\* best_params is the first candidate that scored it; and these two are
\* what the final line reports.
BestIsEarliestMinimum ==
    pc = "Done" =>
        /\ watchAt # 0 => (best # None /\ ~Lower(watch, best))
        /\ best = watch => (watchAt # 0 /\ best_params = GridAt(watchAt))
        /\ best # None => best \in Scores
        /\ report = <<"Best params:", best_params, "rmse=", best>>

\* C1 witness: the run ended, the lowest score was first reached by a
\* candidate that is not the first one scored, and it is the reported best
BestIsEarliestMinimumWitness ==
    /\ pc = "Done"
    /\ watchAt > 2
    /\ best = watch
    /\ best # Inf
    /\ best_params = GridAt(watchAt)
    /\ report[2] = GridAt(watchAt)

\* C2: once a best exists, best and best_params change only in a step whose
\* new best is strictly lower than the old one (so a tie replaces nothing
\* and best never increases).
StrictImprovementOnly ==
    [][best # None =>
          ((best' # best \/ best_params' # best_params) =>
               (best' # None /\ Lower(best', best)))]_vars

\* C2 witness: the candidate just scored tied with the best and the best is
\* still an earlier candidate
StrictImprovementOnlyWitness ==
    /\ pc = "iter"
    /\ log = "Score RMSE:"
    /\ rmse(ref, parse_svg_centers(test_svg)) = best
    /\ best_params # GridAt(combination)

\* C3 (as claimed): best changes only to a finite score, which is strictly
\* lower than the old best when there was one; the sentinel never becomes
\* the best.
SentinelNeverBecomesBest ==
    [][(best' # best \/ best_params' # best_params) =>
          /\ best' # None
          /\ best' # Inf
          /\ best = None \/ Lower(best', best)]_vars

\* C4: a step in which build_project or generate_svg fails leaves best and
\* best_params as they were and goes on to the next candidate of the grid
\* (to the end of the run after the last one).
FailureKeepsBest ==
    [][((pc = "build" /\ pc' # "render") \/ (pc = "render" /\ pc' # "parse"))
          => /\ best' = best
             /\ best_params' = best_params
             /\ combination' = combination
             /\ combination < Total =>
                    (pc' = "iter" /\ ParamsAt(idx') = GridAt(combination + 1))
             /\ combination = Total => pc' = "Done"]_vars

\* C4 witness: a candidate has just failed while a best existed
FailureKeepsBestWitness ==
    /\ pc = "iter"
    /\ log = "Build or generation failed"
    /\ best # None
    /\ best_params # None

\* C5 (as claimed): when parse_svg_centers raises on the candidate's
\* artifact, the loop goes on to the next candidate (or ends normally after
\* the last) with best and best_params unchanged.
ParseFailureSkipsCandidate ==
    [][(pc = "parse" /\ ParseRaises(test_svg)) =>
          /\ pc' \in {"iter", "Done"}
          /\ best' = best
          /\ best_params' = best_params]_vars

\* the report the claim asks for when nothing was scored
NoSuccessfulCandidate == <<"no successful candidate">>

\* C6 (as claimed): at Done without any scored candidate no best was
\* recorded and the final report is the explicit empty result.
AllFailedIsReported ==
    (pc = "Done" /\ best = None) =>
        (best_params = None /\ report = NoSuccessfulCandidate)

\* C7 (as claimed): with a reference that parses to zero labels, no
\* candidate is ever patched, built or rendered, and the run does not end
\* at Done.
EmptyReferenceAborts ==
    (~ParseRaises(reference_svg)
        /\ DOMAIN parse_svg_centers(reference_svg) = {}) =>
            /\ combination = 0
            /\ pc \notin {"build", "render", "parse", "Done"}

\* C8 (as claimed): every run that starts from a reference it can parse,
\* and in which each build and render returns, reaches Done with its final
\* report.
EventuallyDone ==
    ~ParseRaises(reference_svg) => <>(pc = "Done" /\ report # None)

\* C9: the candidate in work is the combination-th of the product in nested
\* order and is what was patched; combination only ever grows by 1, at the
\* top of the loop body; at Done it is Total = 24; the enumeration in that
\* order meets every element of the product exactly once.
EnumerationInOrder ==
    /\ [](/\ combination \in 0..Total
          /\ Total = 24
          /\ pc = "iter" => ParamsAt(idx) = GridAt(combination + 1)
          /\ pc \in {"build", "render", "parse"} =>
                 (ParamsAt(idx) = GridAt(combination)
                     /\ patch_arg = GridAt(combination))
          /\ pc = "Done" =>
                 (combination = Total /\ patch_arg = GridAt(Total))
          /\ patch_arg # None => patch_arg \in Product
          /\ {GridAt(c) : c \in 1..Total} = Product
          /\ Cardinality(Product) = Total)
    /\ [][combination' # combination =>
              (pc = "iter" /\ combination' = combination + 1)]_vars

\* C9 witness: the last candidate of the grid in work as number 24
EnumerationInOrderWitness ==
    /\ pc = "parse"
    /\ combination = 24
    /\ patch_arg = <<70, 36, 24, 28, 8>>

\* C10: the second of two calls with the same arguments leaves the file as
\* the first call left it.
PatchIsIdempotent == [][pc = "once" => render_file' = render_file]_vars

\* C10 witness: after the second call the file holds the node_w that the
\* first call put in, in a text longer than any the run started with
PatchIsIdempotentWitness ==
    /\ pc = "twice"
    /\ Holds(render_file, "node_w", patch_arg[1])
    /\ Len(render_file) > MaxLen

\* the text s holds a declaration of name that the pattern of line 62-70
\* matches
Found(s, name) == \E i \in 1..Len(s) : MatchEnd(s, name, i) # 0

\* C11: a call of patch_render_file on a text in which the declaration of
\* at least one of the five parameters is not found prints the
\* pattern-mismatch warning, patches every parameter whose declaration is
\* found, and changes nothing when none is found.
MismatchIsWarned ==
    [][(pc = "call"
           /\ \E k \in 1..5 : ~Found(render_file, ParamNames[k])) =>
          (/\ warned'
           /\ \A k \in 1..5 :
                  Found(render_file, ParamNames[k]) =>
                      Holds(render_file', ParamNames[k], patch_arg'[k])
           /\ (\A k \in 1..5 : ~Found(render_file, ParamNames[k])) =>
                  render_file' = render_file)]_vars

\* C12: while a candidate is built, rendered or parsed and scored, the
\* render file holds exactly that candidate's five values: a candidate
\* whose patch did not find some declaration gets no further than the
\* patch.
NoStaleParameters ==
    pc \in {"build", "render", "parse"} =>
        \A k \in 1..5 : Holds(render_file, ParamNames[k], patch_arg[k])

\* C13 as stated: rmse of any map with itself, the empty map included, is 0.
RmseOfSelfIsZero ==
    (call # None /\ call[1] = call[2]) => result = <<0, 1>>

\* C13: rmse of a map with itself is 0 when the map has at least one label,
\* and is the sentinel float('inf') when the map is empty.
RmseOfNonEmptySelfIsZero ==
    (call # None /\ call[1] = call[2]) =>
        result = IF DOMAIN call[1] = {} THEN Inf ELSE <<0, 1>>

\* C13 witness: a map of two labels compared with itself gave 0
RmseOfNonEmptySelfIsZeroWitness ==
    /\ call # None
    /\ call[1] = call[2]
    /\ DOMAIN call[1] = Labels
    /\ result = <<0, 1>>

\* C14: rmse returns the sentinel exactly when the two maps share no label
\* and a finite non-negative value otherwise; a finite score replaces a
\* best that is the sentinel, and a sentinel score never replaces a finite
\* best.
SentinelIffNothingShared ==
    /\ [](call # None =>
            /\ result = Inf <=> (DOMAIN call[1]) \cap (DOMAIN call[2]) = {}
            /\ result # Inf => (result[1] >= 0 /\ result[2] > 0))
    /\ [][/\ (best = Inf /\ result' # Inf) => best' = result'
          /\ (best # None /\ best # Inf /\ result' = Inf) => best' = best]_vars

\* C14 witness: a map sharing no label with the reference was scored while
\* the best was finite, and the best is still finite
SentinelIffNothingSharedWitness ==
    /\ call # None
    /\ DOMAIN call[1] # {}
    /\ (DOMAIN call[1]) \cap (DOMAIN call[2]) = {}
    /\ result = Inf
    /\ best # None
    /\ best # Inf

\* the end of a numeric literal, with or without a sign, that starts at i
\* and is followed by ";" (i - 1 when there is none)
RECURSIVE LiteralEnd(_, _)
LiteralEnd(s, i) ==
    IF i <= Len(s) /\ (InClass(s[i]) \/ s[i] = "-")
    THEN LiteralEnd(s, i + 1)
    ELSE IF i <= Len(s) /\ s[i] = ";" THEN i - 1 ELSE i - 1 - Len(s)

\* the text s from position i on without the literals of its declarations:
\* what a declaration head is followed by, up to the ";", is left out
RECURSIVE Outside(_, _)
Outside(s, i) ==
    IF i > Len(s) THEN <<>>
    ELSE IF s[i] \in {Decl(ParamNames[k]) : k \in 1..5}
              /\ LiteralEnd(s, i + 1) >= i + 1
         THEN <<s[i]>> \o Outside(s, LiteralEnd(s, i + 1) + 1)
         ELSE <<s[i]>> \o Outside(s, i + 1)

\* C15: a call of patch_render_file leaves every part of the text outside
\* the numeric literals of the declarations as it was, and when no
\* declaration is found the file is not written.
OnlyLiteralsChange ==
    [][(pc = "call" \/ pc = "once") =>
          (/\ Outside(render_file', 1) = Outside(render_file, 1)
           /\ (\A k \in 1..5 : ~Found(render_file, ParamNames[k])) =>
                  (warned' /\ render_file' = render_file))]_vars

\* the group has a non-blank text child and an ellipse or rectangle child
HasLabelAndShape(g) ==
    /\ \E j \in 1..Len(g.texts) : Strip(g.texts[j]) # <<>>
    /\ (g.ellipse # None \/ g.rect # None)

\* the center the group's shape gives, doubled: the ellipse's (cx, cy), or
\* the rectangle's (x + width / 2, y + height / 2)
CenterOf(g) ==
    IF g.ellipse # None
    THEN <<2 * g.ellipse[1].cx.v, 2 * g.ellipse[1].cy.v>>
    ELSE <<2 * g.rect[1].x.v + g.rect[1].width.v,
           2 * g.rect[1].y.v + g.rect[1].height.v>>

\* C16: what parse_svg_centers returns has exactly the labels of the groups
\* with both a non-blank text child and a shape child, one entry each, and
\* the entry of a label holds the center of the last such group with that
\* label in document order; groups without label or shape add nothing.
OneEntryPerLabelLastWins ==
    pc = "returned" =>
        LET gs == call[1].groups
            ns == {n \in 1..Len(gs) : HasLabelAndShape(gs[n])}
            L(n) == FirstLabel(gs[n].texts)
        IN  /\ DOMAIN result = {L(n) : n \in ns}
            /\ \A n \in ns :
                   (\A m \in ns : L(m) = L(n) => m <= n) =>
                       result[L(n)] = CenterOf(gs[n])

\* C16 witness: two groups labelled A, the first an ellipse and the second
\* a rectangle, and the entry of A is the rectangle's center
OneEntryPerLabelLastWinsWitness ==
    /\ pc = "returned"
    /\ Len(call[1].groups) = 2
    /\ call[1].groups[1].ellipse # None
    /\ call[1].groups[2].ellipse = None
    /\ call[1].groups[2].texts = <<<<" ">>, <<"A">>>>
    /\ DOMAIN result = {<<"A">>}
    /\ result[<<"A">>] = <<5, 6>>

\* the text s has a declaration of each of the five parameters that the
\* patch finds; a patch keeps that so, and never makes it so
AllFound(s) == \A k \in 1..5 : Found(s, ParamNames[k])

\* the five declarations with the values p and nothing else
RECURSIVE ConfigOf(_, _)
ConfigOf(p, k) ==
    IF k = 0 THEN <<>>
    ELSE ConfigOf(p, k - 1) \o <<Decl(ParamNames[k])>> \o Fmt(p[k])
             \o <<";", "\n">>

\* C17: in a run whose render file has all five declarations, at every
\* call of build_project the file holds the five values of the current
\* candidate, the combination-th of the grid, and no value of an earlier
\* candidate.
BuildSeesCurrentCandidate ==
    (pc = "build" /\ AllFound(render_file)) =>
        /\ \A k \in 1..5 :
               Holds(render_file, ParamNames[k], GridAt(combination)[k])
        /\ render_file = ConfigOf(GridAt(combination), 5)

\* C17 witness: the build of the second candidate, which differs from the
\* first in v_gap only
BuildSeesCurrentCandidateWitness ==
    /\ pc = "build"
    /\ combination = 2
    /\ AllFound(render_file)
    /\ Holds(render_file, "v_gap", 28)
    /\ ~Holds(render_file, "v_gap", 24)

\* C18: within an iteration the stages run in the order patch, build,
\* render, parse and score, each after the one before has returned: the
\* build starts from the patch, the renderer only from a build that
\* returned, parsing only from a render that returned in the same
\* iteration, test.svg is written by the renderer only, and a score goes
\* into best only from the parse of the test.svg as that render left it.
StagesInOrder ==
    [][/\ combination' # combination => (pc = "iter" /\ pc' = "build")
       /\ (pc' = "build" /\ pc # "build") => pc = "iter"
       /\ (pc' = "render" /\ pc # "render") => pc = "build"
       /\ (pc' = "parse" /\ pc # "parse") =>
              (pc = "render" /\ combination' = combination)
       /\ test_svg' # test_svg => pc = "render"
       /\ pc = "build" => (pc' \in {"render", "iter", "Done"}
                              /\ best' = best /\ test_svg' = test_svg)
       /\ (pc = "render" /\ pc' # "parse") =>
              (pc' \in {"iter", "Done"} /\ best' = best)
       /\ best' # best =>
              /\ pc = "parse"
              /\ test_svg' = test_svg
              /\ best' = rmse(ref, parse_svg_centers(test_svg))
              /\ best_params' = GridAt(combination)]_vars

\* C18 witness: the second candidate is about to be parsed and scored on
\* a test.svg unlike the one the run started with, after a first candidate
\* that failed to build or to render
StagesInOrderWitness ==
    /\ pc = "parse"
    /\ combination = 2
    /\ best = None
    /\ test_svg = Disjoint

\* C19: in every state of main, best and best_params are both absent or
\* both present, and when present best_params is a candidate of the grid
\* that was built, rendered, parsed and scored, and its score is best.
BestAndParamsTogether ==
    /\ best = None <=> best_params = None
    /\ best_params # None => best_params \in Product
    /\ (best # None /\ best = watch) =>
           /\ watchAt \in 1..combination
           /\ best_params = GridAt(watchAt)

\* C19 witness: the second candidate replaced the first as the best, with
\* the observed score
BestAndParamsTogetherWitness ==
    /\ pc = "iter"
    /\ combination = 2
    /\ best # None
    /\ best = watch
    /\ watchAt = 2
    /\ best_params = <<50, 30, 16, 28, 8>>
    /\ log = "New best!"

\* C20: when the run reaches Done from a render file with all five
\* declarations, the file holds the values of the last candidate of the
\* grid, whichever candidate is reported as the best and however the last
\* candidate ended.
BestIsNotWrittenBack ==
    (pc = "Done" /\ AllFound(render_file)) =>
        /\ combination = Total
        /\ render_file = ConfigOf(<<70, 36, 24, 28, 8>>, 5)
        /\ patch_arg = <<70, 36, 24, 28, 8>>

\* C20 witness: Done with a best candidate that is not the last of the grid
BestIsNotWrittenBackWitness ==
    /\ pc = "Done"
    /\ AllFound(render_file)
    /\ best_params \in Product
    /\ best_params # <<70, 36, 24, 28, 8>>
    /\ report[2] = best_params
    /\ Holds(render_file, "node_w", 70)

====
